---- MODULE Spec2Model ----
(***************************************************************************)
(* BusinessRAG (src/rag_system.py): one invocation of ask(question) as a   *)
(* state machine.  Every external call (the embedding service, the         *)
(* match_documents RPC, the recency query on the documents table, the      *)
(* generative model) is an action whose outcome is chosen by the           *)
(* environment; an exception in flight is the variable exc, and every      *)
(* except clause of the source is an action that clears it.                *)
(*                                                                         *)
(* Text is modelled by what the code reads of it: a question is the        *)
(* sequence of its characters, a field value of a row is a tag and a       *)
(* length (truthiness and slicing depend on the length alone), a response  *)
(* is its kind and its length.                                             *)
(*                                                                         *)
(* st.write / st.error only narrate and are taken not to raise.  Line 130  *)
(* nests quotes inside an f-string, which parses from Python 3.12 on; the  *)
(* model is of the program as it runs there.                               *)
(***************************************************************************)
EXTENDS Integers, Sequences, FiniteSets, TLC

\* Longest whitespace-only question the caller is taken to submit.
MaxBlankLen == 2

\* ask passes 5 to search_documents, which hands it on as match_count / limit.
Limit == 5
\* generate_response uses context_docs[:3].
TopDocs == 3
\* extract_content keeps str(doc[content_field])[:1500].
MaxContentChars == 1500
\* len("Please ask a specific business question.")
FixedResponseLen == 40
\* len("Error generating response: ")
GenErrorPrefixLen == 27
\* len("System error: ")
SysErrorPrefixLen == 14

Min(a, b) == IF a < b THEN a ELSE b

---------------------------------------------------------------------------
(* Questions *)

\* The characters str.strip() with no argument removes, among those used here.
Whitespace == {" ", "\t", "\n"}

RECURSIVE LStrip(_)
LStrip(s) ==
    IF s # <<>> /\ Head(s) \in Whitespace THEN LStrip(Tail(s)) ELSE s

RECURSIVE RStrip(_)
RStrip(s) ==
    IF s # <<>> /\ s[Len(s)] \in Whitespace
    THEN RStrip(SubSeq(s, 1, Len(s) - 1))
    ELSE s

\* A faulty guard: "if not question" with the strip() forgotten.
StripForgotten(s) == s

\* question.strip()
Strip(s) == RStrip(LStrip(s))

RECURSIVE SeqsUpTo(_, _)
SeqsUpTo(S, n) ==
    IF n = 0 THEN {<<>>}
    ELSE LET shorter == SeqsUpTo(S, n - 1)
         IN  shorter \cup {Append(s, x) : s \in shorter, x \in S}

\* Every whitespace-only question up to the bound, the empty one included.
BlankQuestions == SeqsUpTo(Whitespace, MaxBlankLen)

QComplex ==
    <<"H","o","w"," ","s","h","o","u","l","d"," ","I"," ","r","e","s","p","o","n","d"," ",
      "t","o"," ","t","h","e"," ","c","l","i","e","n","t","?">>
QSimple ==
    <<"W","h","a","t"," ","i","s"," ","H","a","n","n","a","h","'","s"," ",
      "p","h","o","n","e"," ","n","u","m","b","e","r","?">>
QMedium ==
    <<"T","e","l","l"," ","m","e"," ","a","b","o","u","t"," ","Q","3">>
\* A question with whitespace around it: strip() leaves "ok".
QPadded == <<" ", "o", "k", "\n">>

AskedQuestions == {QComplex, QSimple, QMedium, QPadded}

Questions == BlankQuestions \cup AskedQuestions

---------------------------------------------------------------------------
(* The classification of section 4.2 of the specification.  The source has *)
(* no classifier; these operators state what the specification describes.  *)

UpperCase == <<"A","B","C","D","E","F","G","H","I","J","K","L","M",
               "N","O","P","Q","R","S","T","U","V","W","X","Y","Z">>
LowerCase == <<"a","b","c","d","e","f","g","h","i","j","k","l","m",
               "n","o","p","q","r","s","t","u","v","w","x","y","z">>

Lower(c) ==
    IF \E i \in 1..Len(UpperCase) : UpperCase[i] = c
    THEN LowerCase[CHOOSE i \in 1..Len(UpperCase) : UpperCase[i] = c]
    ELSE c

LowerAll(s) == [i \in 1..Len(s) |-> Lower(s[i])]

Contains(s, sub) ==
    \E i \in 1..(Len(s) - Len(sub) + 1) : SubSeq(s, i, i + Len(sub) - 1) = sub

ComplexTriggers ==
    { <<"c","o","m","p","a","r","e">>,
      <<"a","n","a","l","y","z","e">>,
      <<"r","e","c","o","m","m","e","n","d">>,
      <<"s","t","r","a","t","e","g","y">>,
      <<"a","p","p","r","o","a","c","h">>,
      <<"b","e","s","t">>,
      <<"h","o","w"," ","s","h","o","u","l","d">> }
SimpleTriggers ==
    { <<"w","h","a","t">>,
      <<"w","h","o">>,
      <<"w","h","e","n">>,
      <<"w","h","e","r","e">>,
      <<"c","o","n","t","a","c","t">>,
      <<"e","m","a","i","l">>,
      <<"p","h","o","n","e">>,
      <<"p","r","i","c","e">> }

ClaimedIntent(q) ==
    LET l == LowerAll(q)
    IN  IF \E t \in ComplexTriggers : Contains(l, t) THEN "complex"
        ELSE IF \E t \in SimpleTriggers : Contains(l, t) THEN "simple"
        ELSE "medium"

---------------------------------------------------------------------------
(* Rows and extract_content *)

\* A field value: tag names the text, len is len(str(value)); a null or an
\* empty string has len 0 and is falsy.
Val(t, n) == [tag |-> t, len |-> n]
Null == Val("", 0)

Truthy(v) == v.len > 0

\* A returned row.  kind "dict" is a mapping with the fields f; kind "scalar"
\* is a row that is no mapping (it has no .get and no item access).
\* sim is the row's similarity entry: "float", "absent" (no such key, the
\* .get default 0 is used) or "null" (a key whose value is not a number).
DictRow(f, s) == [kind |-> "dict", f |-> f, sim |-> s]
ScalarRow == [kind |-> "scalar", f |-> [value |-> Val("row", 3)], sim |-> "absent"]

TitleFields == <<"title", "name", "filename", "file_path">>
ContentFields == <<"content", "text", "body", "description">>

\* for field in fields: if field in doc and doc[field]: ...; break
RECURSIVE FirstTruthy(_, _, _)
FirstTruthy(doc, fields, default) ==
    IF fields = <<>> THEN default
    ELSE IF Head(fields) \in DOMAIN doc.f /\ Truthy(doc.f[Head(fields)])
         THEN doc.f[Head(fields)]
         ELSE FirstTruthy(doc, Tail(fields), default)

UnknownTitle == Val("Unknown Document", 16)
NoContent == Val("No content available", 20)

\* str(doc[content_field])[:1500]
Truncate(v, n) == Val(v.tag, Min(v.len, n))

\* extract_content raises when self.table_info is missing (the constructor
\* returned early) or when the row is no mapping ('title' in doc / doc['title']).
ExtractRaises(cfg, doc) == ~cfg \/ doc.kind # "dict"

ExtractTitle(doc) == FirstTruthy(doc, TitleFields, UnknownTitle)

\* A faulty variant: the [:1500] slice left out.
ExtractContentWhole(doc) == FirstTruthy(doc, ContentFields, NoContent)

ExtractContent(doc) ==
    LET v == FirstTruthy(doc, ContentFields, Null)
    IN  IF Truthy(v) THEN Truncate(v, MaxContentChars) ELSE NoContent

extract_content(doc) == [title |-> ExtractTitle(doc), content |-> ExtractContent(doc)]

---------------------------------------------------------------------------
(* What the environment can answer *)

\* Rows the match_documents RPC can return (its columns are its own).
VectorPool ==
    { DictRow([title |-> Val("Q3 Report", 9), content |-> Val("q3", 2000)], "float"),
      DictRow([title |-> Null, name |-> Val("Pricing Guide", 13),
               body |-> Val("pricing", 1200)], "absent"),
      DictRow([file_path |-> Val("notes.txt", 9)], "null"),
      ScalarRow }

\* Rows the recency query can return: select("id, title, content, file_type,
\* file_path") gives each row those keys.  The client is an external
\* collaborator, so a row that is no mapping is allowed for as well.
RecencyPool ==
    { DictRow([title |-> Val("Q3 Report", 9), content |-> Val("q3", 2000),
               file_path |-> Val("q3.pdf", 6)], "absent"),
      DictRow([title |-> Null, content |-> Null,
               file_path |-> Val("notes.txt", 9)], "absent"),
      ScalarRow }

VectorAnswers == SeqsUpTo(VectorPool, Limit) \ {<<>>}
RecencyAnswers == SeqsUpTo(RecencyPool, Limit) \ {<<>>}

\* What a case-insensitive substring filter over title and body would yield
\* for the question: no row, or two rows.
KeywordAnswers ==
    { <<>>,
      << DictRow([title |-> Val("Client reply", 12), content |-> Val("reply", 300)], "absent"),
         DictRow([title |-> Val("Client notes", 12), content |-> Val("notes", 700)], "absent") >> }

\* len(str(e)) of a failure of an external call; str(e) may be empty.
ErrorMsgLens == {0, 24}
\* len(response.text) of a completed generation; the text may be empty.
TextLens == {0, 120}
NoExc == [at |-> "none", msg |-> 0]
Exc(where, n) == [at |-> where, msg |-> n]
\* The interpreter's own AttributeError / TypeError: its message is never empty.
InternalError(where) == Exc(where, 33)

---------------------------------------------------------------------------
(* State *)

VARIABLES
    question,       \* the argument of ask
    configured,     \* the constructor set self.supabase, self.model, self.table_info
    keywordRows,    \* what a keyword filter on the store would yield (never queried)
    pc,             \* position in ask
    exc,            \* the exception in flight, NoExc when none
    limit,          \* the limit ask hands to search_documents
    vector_rows,    \* results.data, a local of search_documents: dropped when
                    \* the function returns something else
    recency_rows,   \* response.data of the recency query
    relevant_docs,  \* what search_documents returned
    strategy,       \* which branch produced relevant_docs
    semantic,       \* how the embedding + vector search ended: "hit", "empty",
                    \* "threw", or "unformattable" (rows came back, line 130 raised)
    recency,        \* how fallback_search ended
    context,        \* the context generate_response assembled
    response,       \* what generate_response returned
    result,         \* what ask returned
    calls           \* external calls issued so far

vars == <<question, configured, keywordRows, pc, exc, limit, vector_rows,
          recency_rows, relevant_docs, strategy, semantic, recency, context,
          response, result, calls>>

NoCalls == [embed |-> 0, vector |-> 0, recency |-> 0, generate |-> 0]
NoContext == [kind |-> "none", blocks |-> <<>>]
NoResponse == [kind |-> "none", len |-> 0]
NoResult == [returned |-> FALSE]

Init ==
    /\ question \in Questions
    /\ configured \in BOOLEAN
    /\ keywordRows \in KeywordAnswers
    /\ pc = "ask"
    /\ exc = NoExc
    /\ limit = 0
    /\ vector_rows = <<>>
    /\ recency_rows = <<>>
    /\ relevant_docs = <<>>
    /\ strategy = "none"
    /\ semantic = "none"
    /\ recency = "none"
    /\ context = NoContext
    /\ response = NoResponse
    /\ result = NoResult
    /\ calls = NoCalls

Issued(step) == [calls EXCEPT ![step] = @ + 1]

---------------------------------------------------------------------------
(* ask, lines 218-226: the guard on the stripped question *)

FixedResponse == [kind |-> "fixed", len |-> FixedResponseLen]

Result(q, resp, srcs, n) ==
    [question |-> q, response |-> resp, sources |-> srcs, source_count |-> n]

\* if not question.strip(): return {... "Please ask a specific business question." ...}
AskBlank ==
    /\ pc = "ask"
    /\ Strip(question) = <<>>
    /\ result' = Result(question, FixedResponse, <<>>, 0)
    /\ pc' = "done"
    /\ UNCHANGED <<question, configured, keywordRows, exc, limit, vector_rows,
                   recency_rows, relevant_docs, strategy, semantic, recency,
                   context, response, calls>>

\* try: ... relevant_docs = self.search_documents(question, 5)
AskEnter ==
    /\ pc = "ask"
    /\ Strip(question) # <<>>
    /\ limit' = Limit
    /\ pc' = "embed"
    /\ UNCHANGED <<question, configured, keywordRows, exc, vector_rows,
                   recency_rows, relevant_docs, strategy, semantic, recency,
                   context, response, result, calls>>

---------------------------------------------------------------------------
(* search_documents, lines 98-142 *)

\* openai.Embedding.create(...) returns an embedding.
EmbedOk ==
    /\ pc = "embed"
    /\ calls' = Issued("embed")
    /\ pc' = "vector"
    /\ UNCHANGED <<question, configured, keywordRows, exc, limit, vector_rows,
                   recency_rows, relevant_docs, strategy, semantic, recency,
                   context, response, result>>

\* The import, the call or the indexing of its response raises.
EmbedRaise ==
    /\ pc = "embed"
    /\ \E m \in ErrorMsgLens : exc' = Exc("embed", m)
    /\ calls' = Issued("embed")
    /\ pc' = "embed_except"
    /\ UNCHANGED <<question, configured, keywordRows, limit, vector_rows,
                   recency_rows, relevant_docs, strategy, semantic, recency,
                   context, response, result>>

\* A faulty variant: the handler returns [] instead of falling back.
EmbedErrorGivesUp ==
    /\ pc = "embed_except"
    /\ exc' = NoExc
    /\ semantic' = "threw"
    /\ relevant_docs' = <<>>
    /\ pc' = "generate"
    /\ UNCHANGED <<question, configured, keywordRows, limit, vector_rows,
                   recency_rows, strategy, recency, context, response, result,
                   calls>>

\* except Exception (line 116): return self.fallback_search(limit)
HandleEmbedError ==
    /\ pc = "embed_except"
    /\ exc' = NoExc
    /\ semantic' = "threw"
    /\ pc' = "fallback"
    /\ UNCHANGED <<question, configured, keywordRows, limit, vector_rows,
                   recency_rows, relevant_docs, strategy, recency, context,
                   response, result, calls>>

\* The f-string of line 130 formats r.get('similarity', 0) with :.2f for every
\* row: a row with no .get, or a similarity that is no number, raises.
Formattable(r) == r.kind = "dict" /\ r.sim # "null"

AllFormattable(rows) == \A i \in 1..Len(rows) : Formattable(rows[i])

\* results.data is non-empty and the narration of lines 129-130 goes through:
\* return results.data
VectorHit ==
    /\ pc = "vector"
    /\ configured
    /\ \E rows \in VectorAnswers :
        /\ Len(rows) <= limit
        /\ AllFormattable(rows)
        /\ vector_rows' = rows
        /\ relevant_docs' = rows
    /\ calls' = Issued("vector")
    /\ semantic' = "hit"
    /\ strategy' = "vector"
    /\ pc' = "generate"
    /\ UNCHANGED <<question, configured, keywordRows, exc, limit,
                   recency_rows, recency, context, response, result>>

\* results.data is non-empty and line 130 raises while narrating it.
VectorUnformattable ==
    /\ pc = "vector"
    /\ configured
    /\ \E rows \in VectorAnswers :
        /\ Len(rows) <= limit
        /\ ~AllFormattable(rows)
        /\ vector_rows' = rows
    /\ calls' = Issued("vector")
    /\ exc' = InternalError("format")
    /\ pc' = "vector_except"
    /\ UNCHANGED <<question, configured, keywordRows, limit, recency_rows,
                   relevant_docs, strategy, semantic, recency, context,
                   response, result>>

\* results.data is empty (or None): return self.fallback_search(limit)
VectorEmpty ==
    /\ pc = "vector"
    /\ configured
    /\ calls' = Issued("vector")
    /\ semantic' = "empty"
    /\ pc' = "fallback"
    /\ UNCHANGED <<question, configured, keywordRows, exc, limit, vector_rows,
                   recency_rows, relevant_docs, strategy, recency, context,
                   response, result>>

\* The RPC raises; with no self.supabase the attribute lookup raises before
\* any call is issued.
VectorRaise ==
    /\ pc = "vector"
    /\ \/ /\ configured
          /\ \E m \in ErrorMsgLens : exc' = Exc("vector", m)
          /\ calls' = Issued("vector")
       \/ /\ ~configured
          /\ exc' = InternalError("vector")
          /\ calls' = calls
    /\ pc' = "vector_except"
    /\ UNCHANGED <<question, configured, keywordRows, limit, vector_rows,
                   recency_rows, relevant_docs, strategy, semantic, recency,
                   context, response, result>>

\* except Exception (line 136): return self.fallback_search(limit)
HandleVectorError ==
    /\ pc = "vector_except"
    /\ exc' = NoExc
    /\ semantic' = IF exc.at = "format" THEN "unformattable" ELSE "threw"
    /\ pc' = "fallback"
    /\ UNCHANGED <<question, configured, keywordRows, limit, vector_rows,
                   recency_rows, relevant_docs, strategy, recency, context,
                   response, result, calls>>

---------------------------------------------------------------------------
(* fallback_search, lines 144-158 *)

\* response.data is non-empty: return response.data
FallbackHit ==
    /\ pc = "fallback"
    /\ configured
    /\ \E rows \in RecencyAnswers :
        /\ Len(rows) <= limit
        /\ recency_rows' = rows
        /\ relevant_docs' = rows
    /\ vector_rows' = <<>>
    /\ calls' = Issued("recency")
    /\ recency' = "hit"
    /\ strategy' = "recency"
    /\ pc' = "generate"
    /\ UNCHANGED <<question, configured, keywordRows, exc, limit, semantic,
                   context, response, result>>

\* response.data is empty: return []
FallbackEmpty ==
    /\ pc = "fallback"
    /\ configured
    /\ recency_rows' = <<>>
    /\ relevant_docs' = <<>>
    /\ vector_rows' = <<>>
    /\ calls' = Issued("recency")
    /\ recency' = "empty"
    /\ pc' = "generate"
    /\ UNCHANGED <<question, configured, keywordRows, exc, limit, strategy,
                   semantic, context, response, result>>

\* The query raises; with no self.supabase the attribute lookup raises.
FallbackRaise ==
    /\ pc = "fallback"
    /\ \/ /\ configured
          /\ \E m \in ErrorMsgLens : exc' = Exc("recency", m)
          /\ calls' = Issued("recency")
       \/ /\ ~configured
          /\ exc' = InternalError("recency")
          /\ calls' = calls
    /\ pc' = "fallback_except"
    /\ UNCHANGED <<question, configured, keywordRows, limit, vector_rows,
                   recency_rows, relevant_docs, strategy, semantic, recency,
                   context, response, result>>

\* A faulty variant: fallback_search has no except clause, and the failure
\* reaches the try of ask.
FallbackErrorPropagates ==
    /\ pc = "fallback_except"
    /\ recency_rows' = <<>>
    /\ vector_rows' = <<>>
    /\ recency' = "threw"
    /\ pc' = "ask_except"
    /\ UNCHANGED <<question, configured, keywordRows, exc, limit,
                   relevant_docs, strategy, semantic, context, response,
                   result, calls>>

\* A faulty variant: the failure reaches the enclosing except of
\* search_documents (line 140), which calls fallback_search again.
FallbackErrorRetried ==
    /\ pc = "fallback_except"
    /\ exc' = NoExc
    /\ pc' = "fallback"
    /\ UNCHANGED <<question, configured, keywordRows, limit, vector_rows,
                   recency_rows, relevant_docs, strategy, semantic, recency,
                   context, response, result, calls>>

\* except Exception (line 156): return []
HandleFallbackError ==
    /\ pc = "fallback_except"
    /\ exc' = NoExc
    /\ recency_rows' = <<>>
    /\ relevant_docs' = <<>>
    /\ vector_rows' = <<>>
    /\ recency' = "threw"
    /\ pc' = "generate"
    /\ UNCHANGED <<question, configured, keywordRows, limit, strategy,
                   semantic, context, response, result, calls>>

---------------------------------------------------------------------------
(* generate_response, lines 180-216 *)

\* context_docs[:n]
Take(docs, n) == SubSeq(docs, 1, Min(n, Len(docs)))

AnyExtractRaises(cfg, docs) == \E i \in 1..Len(docs) : ExtractRaises(cfg, docs[i])

\* "No specific documents found in your knowledge base."
NoDocsContext == [kind |-> "nodocs", blocks |-> <<>>]

\* for doc in context_docs[:3]: context_parts.append("Document: ...\nContent: ...")
DocsContext(docs) ==
    [kind |-> "docs",
     blocks |-> [i \in 1..Len(Take(docs, TopDocs)) |-> extract_content(docs[i])]]

\* Lines 183-193: the context is built, or extract_content raises inside the
\* try of generate_response.
AssembleContext ==
    /\ pc = "generate"
    /\ \/ /\ relevant_docs = <<>>
          /\ context' = NoDocsContext
          /\ pc' = "llm"
          /\ exc' = exc
       \/ /\ relevant_docs # <<>>
          /\ ~AnyExtractRaises(configured, Take(relevant_docs, TopDocs))
          /\ context' = DocsContext(relevant_docs)
          /\ pc' = "llm"
          /\ exc' = exc
       \/ /\ relevant_docs # <<>>
          /\ AnyExtractRaises(configured, Take(relevant_docs, TopDocs))
          /\ context' = context
          /\ exc' = InternalError("extract")
          /\ pc' = "generate_except"
    /\ UNCHANGED <<question, configured, keywordRows, limit, vector_rows,
                   recency_rows, relevant_docs, strategy, semantic, recency,
                   response, result, calls>>

\* response = self.model.generate_content(prompt); return response.text
GenerateText ==
    /\ pc = "llm"
    /\ configured
    /\ \E n \in TextLens : response' = [kind |-> "text", len |-> n]
    /\ calls' = Issued("generate")
    /\ pc' = "sources"
    /\ UNCHANGED <<question, configured, keywordRows, exc, limit, vector_rows,
                   recency_rows, relevant_docs, strategy, semantic, recency,
                   context, result>>

\* The call or response.text raises; with no self.model the attribute lookup
\* raises before any call is issued.
GenerateRaise ==
    /\ pc = "llm"
    /\ \/ /\ configured
          /\ \E m \in ErrorMsgLens : exc' = Exc("generate", m)
          /\ calls' = Issued("generate")
       \/ /\ ~configured
          /\ exc' = InternalError("generate")
          /\ calls' = calls
    /\ pc' = "generate_except"
    /\ UNCHANGED <<question, configured, keywordRows, limit, vector_rows,
                   recency_rows, relevant_docs, strategy, semantic, recency,
                   context, response, result>>

\* except Exception (line 215): return f"Error generating response: {str(e)}"
HandleGenerateError ==
    /\ pc = "generate_except"
    /\ response' = [kind |-> "generr", len |-> GenErrorPrefixLen + exc.msg]
    /\ exc' = NoExc
    /\ pc' = "sources"
    /\ UNCHANGED <<question, configured, keywordRows, limit, vector_rows,
                   recency_rows, relevant_docs, strategy, semantic, recency,
                   context, result, calls>>

---------------------------------------------------------------------------
(* ask, lines 241-261: the sources and the result *)

\* for doc in relevant_docs: title, _ = self.extract_content(doc); sources.append(title)
Sources(docs) == [i \in 1..Len(docs) |-> ExtractTitle(docs[i])]

\* A variant that classifies the question and adds the intent to the result.
ReturnResultWithIntent ==
    /\ pc = "sources"
    /\ ~AnyExtractRaises(configured, relevant_docs)
    /\ result' = [question |-> question, response |-> response,
                  sources |-> Sources(relevant_docs),
                  source_count |-> Len(relevant_docs),
                  intent |-> ClaimedIntent(question)]
    /\ pc' = "done"
    /\ UNCHANGED <<question, configured, keywordRows, exc, limit, vector_rows,
                   recency_rows, relevant_docs, strategy, semantic, recency,
                   context, response, calls>>

\* Lines 242-252: every title is extracted and the result is returned.
ReturnResult ==
    /\ pc = "sources"
    /\ ~AnyExtractRaises(configured, relevant_docs)
    /\ result' = Result(question, response, Sources(relevant_docs), Len(relevant_docs))
    /\ pc' = "done"
    /\ UNCHANGED <<question, configured, keywordRows, exc, limit, vector_rows,
                   recency_rows, relevant_docs, strategy, semantic, recency,
                   context, response, calls>>

\* extract_content raises in the loop of line 243, inside the try of ask.
SourcesRaise ==
    /\ pc = "sources"
    /\ AnyExtractRaises(configured, relevant_docs)
    /\ exc' = InternalError("sources")
    /\ pc' = "ask_except"
    /\ UNCHANGED <<question, configured, keywordRows, limit, vector_rows,
                   recency_rows, relevant_docs, strategy, semantic, recency,
                   context, response, result, calls>>

\* A faulty variant: ask has no except clause, and the failure leaves ask.
AskErrorPropagates ==
    /\ pc = "ask_except"
    /\ pc' = "done"
    /\ UNCHANGED <<question, configured, keywordRows, exc, limit, vector_rows,
                   recency_rows, relevant_docs, strategy, semantic, recency,
                   context, response, result, calls>>

\* except Exception (line 254): return {... f"System error: {str(e)}", [], 0}
HandleAskError ==
    /\ pc = "ask_except"
    /\ result' = Result(question,
                        [kind |-> "syserr", len |-> SysErrorPrefixLen + exc.msg],
                        <<>>, 0)
    /\ exc' = NoExc
    /\ pc' = "done"
    /\ UNCHANGED <<question, configured, keywordRows, limit, vector_rows,
                   recency_rows, relevant_docs, strategy, semantic, recency,
                   context, response, calls>>

---------------------------------------------------------------------------

Next ==
    \/ AskBlank
    \/ AskEnter
    \/ EmbedOk
    \/ EmbedRaise
    \/ HandleEmbedError
    \/ VectorHit
    \/ VectorUnformattable
    \/ VectorEmpty
    \/ VectorRaise
    \/ HandleVectorError
    \/ FallbackHit
    \/ FallbackEmpty
    \/ FallbackRaise
    \/ HandleFallbackError
    \/ AssembleContext
    \/ GenerateText
    \/ GenerateRaise
    \/ HandleGenerateError
    \/ ReturnResult
    \/ SourcesRaise
    \/ HandleAskError

Spec == Init /\ [][Next]_vars

---------------------------------------------------------------------------
(* Properties *)

ResultKeys == {"question", "response", "sources", "source_count"}

WhitespaceOnly(q) == \A i \in 1..Len(q) : q[i] \in Whitespace

Handlers ==
    {"embed_except", "vector_except", "fallback_except", "generate_except",
     "ask_except"}

\* search_documents has returned.
AfterSearch ==
    {"generate", "llm", "generate_except", "sources", "ask_except", "done"}

SemanticThrew == semantic \in {"threw", "unformattable"}

\* C1: ask never propagates an exception: an exception in flight is always
\* inside a try whose handler takes it, and when ask is done no exception is
\* left and the result carries question, response, sources and source_count;
\* a failure of title extraction in ask's own loop yields the system-error
\* result with no sources and source_count 0.
C1_AskNeverPropagates ==
    /\ exc # NoExc => pc \in Handlers
    /\ pc = "done" =>
        /\ exc = NoExc
        /\ DOMAIN result = ResultKeys
        /\ result.question = question
        /\ AnyExtractRaises(configured, relevant_docs) =>
            /\ result.response.kind = "syserr"
            /\ result.sources = <<>>
            /\ result.source_count = 0

C1_Witness ==
    /\ pc = "done"
    /\ result.response.kind = "syserr"
    /\ calls.generate = 1

\* C2: for every non-empty question and every outcome of the external calls
\* the result has source_count = len(sources) and a non-empty response.
C2_CountMatchesAndResponseNonEmpty ==
    (pc = "done" /\ ~WhitespaceOnly(question)) =>
        /\ result.source_count = Len(result.sources)
        /\ result.response.len > 0

\* C3: for an empty or whitespace-only question no external call is issued at
\* any point, ask goes nowhere but to its return, and the result is the fixed
\* response with no sources and source_count 0.
C3_BlankQuestionFixedResult ==
    WhitespaceOnly(question) =>
        /\ calls = NoCalls
        /\ pc \in {"ask", "done"}
        /\ pc = "done" =>
            /\ result.response = [kind |-> "fixed", len |-> 40]
            /\ result.sources = <<>>
            /\ result.source_count = 0
            /\ result.question = question

C3_Witness ==
    /\ pc = "done"
    /\ question = <<" ", "\t">>
    /\ result.response.kind = "fixed"

\* C4: whenever the vector search call returned a non-empty list of rows,
\* whatever the rows contain, search_documents returns exactly that list and
\* the recency fallback is not invoked.
C4_NonEmptyVectorResultIsReturned ==
    (pc \in AfterSearch /\ semantic \in {"hit", "unformattable"}) =>
        /\ vector_rows # <<>>
        /\ relevant_docs = vector_rows
        /\ calls.recency = 0

C6_AllStrategiesFailGivesEmpty ==
    (semantic \in {"threw", "empty", "unformattable"}
        /\ recency \in {"threw", "empty"}) =>
        /\ relevant_docs = <<>>
        /\ pc \in AfterSearch \ {"ask_except"}
        /\ pc = "generate" => exc = NoExc
        /\ pc \in {"llm", "generate_except", "sources", "done"} =>
            context = [kind |-> "nodocs", blocks |-> <<>>]
        /\ pc = "done" =>
            /\ result.response.kind \in {"text", "generr"}
            /\ result.sources = <<>>
            /\ result.source_count = 0
            /\ configured => calls.generate = 1

C6_Witness ==
    /\ pc = "done"
    /\ semantic = "empty"
    /\ recency = "threw"
    /\ context.kind = "nodocs"
    /\ result.response.kind = "text"

\* C7 as stated: the context holds the first 3 retrieved documents at most, in
\* retrieval order, each body cut to at most 1000 characters.
C7_ContextBodiesAtMost1000 ==
    context.kind = "docs" =>
        /\ Len(context.blocks) = Min(3, Len(relevant_docs))
        /\ \A i \in 1..Len(context.blocks) :
            /\ context.blocks[i].title = ExtractTitle(relevant_docs[i])
            /\ context.blocks[i].content.len <= 1000

\* C7 as amended: the context holds the first 3 retrieved documents at most,
\* in retrieval order, each body cut to at most 1500 characters.
C7_ContextBodiesAtMost1500 ==
    context.kind = "docs" =>
        /\ Len(context.blocks) = Min(3, Len(relevant_docs))
        /\ \A i \in 1..Len(context.blocks) :
            /\ context.blocks[i].title = ExtractTitle(relevant_docs[i])
            /\ context.blocks[i].content.len <= 1500

C7_Witness ==
    /\ context.kind = "docs"
    /\ Len(relevant_docs) = 5
    /\ Len(context.blocks) = 3
    /\ \E i \in 1..3 : context.blocks[i].content.len = 1500

\* C8: whenever the result reports a failure (a generation-error or a
\* system-error response) it has source_count 0 and no sources.
C8_FailureHasNoSources ==
    (pc = "done" /\ result.response.kind \in {"generr", "syserr"}) =>
        /\ result.source_count = 0
        /\ result.sources = <<>>

\* C9 as stated: the result of ask on a non-empty question carries the intent
\* of the question: complex triggers first, then simple ones, else medium.
C9_ResultCarriesIntent ==
    (pc = "done" /\ ~WhitespaceOnly(question)) =>
        /\ "intent" \in DOMAIN result
        /\ result.intent = ClaimedIntent(question)

\* C9 as amended: ask classifies nothing: for every question the result
\* carries question, response, sources and source_count and no intent, and
\* every non-empty question is searched with the limit 5, whatever its intent
\* would be.
C9_ResultCarriesNoIntent ==
    /\ pc = "done" =>
        /\ "intent" \notin DOMAIN result
        /\ DOMAIN result = ResultKeys
    /\ (pc # "ask" /\ ~WhitespaceOnly(question)) => limit = 5

C9_Witness ==
    /\ pc = "done"
    /\ question = QSimple
    /\ ClaimedIntent(question) = "simple"
    /\ ClaimedIntent(QComplex) = "complex"
    /\ ClaimedIntent(QMedium) = "medium"
    /\ result.response.kind = "text"
    /\ limit = 5

\* C10: within one invocation the embedding call, the vector search call and
\* the recency query are each issued at most once, on every path through the
\* handlers of search_documents.
C10_EachStepAtMostOnce ==
    /\ calls.embed <= 1
    /\ calls.vector <= 1
    /\ calls.recency <= 1

C10_Witness ==
    /\ pc = "done"
    /\ calls.embed = 1
    /\ calls.vector = 1
    /\ calls.recency = 1
    /\ semantic = "threw"
    /\ recency = "threw"

====
